---------------------------- MODULE Spec2Model ----------------------------
(***************************************************************************)
(* Model of the download-directory file server                             *)
(* (selenium/base/fileserver/main.go).                                     *)
(*                                                                         *)
(* The filesystem below the configured directory is the only shared        *)
(* state.  Every HTTP request is served by its own goroutine; a handler    *)
(* is cut into steps at the system calls that touch the filesystem         *)
(* (os.Stat, os.Remove, os.ReadDir, DirEntry.Info, os.Open), so that the   *)
(* steps of two handlers can interleave exactly where the code allows it.  *)
(*                                                                         *)
(* Strings that the code inspects character by character (algorithm        *)
(* names) are sequences of one-character strings; a URL path is the        *)
(* sequence of its separators and segments.                                *)
(***************************************************************************)
EXTENDS Integers, Sequences, FiniteSets, TLC

VARIABLES
    dirExists,  \* the configured directory itself exists
    fs,         \* entries directly inside it: name -> entry
    pc,         \* per goroutine: position in its handler
    req,        \* per goroutine: the request being served
    handler,    \* per goroutine: component chosen by the router
    algo,       \* per goroutine: algo argument of listFilesAsJson
    entries,    \* per goroutine: result of os.ReadDir
    idx,        \* per goroutine: loop position in entries
    info,       \* per goroutine: result of entry.Info() of this iteration
    files,      \* per goroutine: the []FileInfo slice built so far
    resp,       \* per goroutine: what was written to the ResponseWriter
    served,     \* number of requests accepted so far
    erased      \* log: the paths a DELETE has removed with success

vars == <<dirExists, fs, pc, req, handler, algo, entries, idx, info, files,
          resp, served, erased>>

---------------------------------------------------------------------------
(* Bounds *)

MaxReqs    == 2 \* requests accepted in a run with concurrent handlers
MaxSeqReqs == 4 \* requests accepted in a sequential run
MaxTime == 2    \* modification times are 1..MaxTime

Procs == {"g1", "g2"}

---------------------------------------------------------------------------
(* Strings *)

md5    == <<"m", "d", "5">>
sha1   == <<"s", "h", "a", "1">>
sha256 == <<"s", "h", "a", "2", "5", "6">>

\* unicode.ToLower on the characters that occur in the model
LowerChar(c) ==
    CASE c = "M" -> "m"
      [] c = "D" -> "d"
      [] c = "S" -> "s"
      [] c = "H" -> "h"
      [] c = "A" -> "a"
      [] c = "C" -> "c"
      [] c = "R" -> "r"
      [] OTHER   -> c

ToLower(s) == [i \in 1..Len(s) |-> LowerChar(s[i])]

\* strings.TrimPrefix(path, "/")
TrimPrefix(path) ==
    IF Len(path) > 0 /\ Head(path) = "/" THEN Tail(path) ELSE path

\* filepath.Join(dir, fileName): the path elements below dir.  Separators
\* and empty elements are dropped (Clean); the URL paths that reach the
\* handler hold no "." or ".." element, ServeMux redirects those.
PathBelowDir(fileName) == SelectSeq(fileName, LAMBDA t : t # "/")

---------------------------------------------------------------------------
(* The filesystem *)

FileNames == {"a.txt", "b.txt"}
DirNames  == {"sub"}
Names     == FileNames \cup DirNames
ChildNames == {"x"}

\* os.ReadDir returns the entries sorted by filename
NameOrder == <<"a.txt", "b.txt", "sub">>

FileContent(n) == IF n = "a.txt" THEN <<1, 2>> ELSE <<>>

\* what the browser can have left under name n: a.txt is a file the server
\* may read, b.txt a file it may or may not read (an empty one), sub a
\* directory holding one file
EntriesFor(n) ==
    CASE n = "a.txt" ->
           { [kind |-> "file", mtime |-> t, size |-> Len(FileContent(n)),
              readable |-> TRUE, content |-> FileContent(n),
              children |-> {}] : t \in 1..MaxTime }
      [] n = "b.txt" ->
           { [kind |-> "file", mtime |-> t, size |-> Len(FileContent(n)),
              readable |-> r, content |-> FileContent(n),
              children |-> {}] : t \in 1..MaxTime, r \in BOOLEAN }
      [] OTHER ->
           { [kind |-> "dir", mtime |-> t, size |-> 0, readable |-> TRUE,
              content |-> <<>>, children |-> ChildNames] : t \in 1..MaxTime }

\* every directory content over Names
Directories ==
    UNION { { d \in [S -> UNION {EntriesFor(n) : n \in S}] :
              \A n \in S : d[n] \in EntriesFor(n) } : S \in SUBSET Names }

\* the path (elements below the configured directory) names something
PathExists(segs) ==
    /\ dirExists
    /\ \/ Len(segs) = 0
       \/ Len(segs) = 1 /\ segs[1] \in DOMAIN fs
       \/ /\ Len(segs) = 2
          /\ segs[1] \in DOMAIN fs
          /\ fs[segs[1]].kind = "dir"
          /\ segs[2] \in fs[segs[1]].children

\* variant: the existence check looks at the directory, not at the file
StatDirOnly(segs) == dirExists

\* os.Stat(filePath) returned err == nil
StatOk(segs) == PathExists(segs)

\* os.Remove(filePath) returns err == nil: the path exists and is a file
\* or an empty directory
RemoveOk(segs) ==
    /\ PathExists(segs)
    /\ Len(segs) = 0 => DOMAIN fs = {}
    /\ Len(segs) = 1 =>
          (fs[segs[1]].kind = "dir" => fs[segs[1]].children = {})

\* variant: the whole content of the directory goes (os.RemoveAll)
FsAfterRemoveAll(segs) == [n \in {} |-> fs[n]]

\* the filesystem after a successful os.Remove(filePath)
FsAfterRemove(segs) ==
    IF Len(segs) = 1
    THEN [n \in DOMAIN fs \ {segs[1]} |-> fs[n]]
    ELSE IF Len(segs) = 2
    THEN [fs EXCEPT ![segs[1]].children = @ \ {segs[2]}]
    ELSE fs

DirAfterRemove(segs) == IF Len(segs) = 0 THEN FALSE ELSE dirExists

---------------------------------------------------------------------------
(* Requests and responses *)

StatusNotFound            == 404
StatusInternalServerError == 500

Methods == {"GET", "POST", "DELETE"}

Paths == { <<"/">>, <<"/", "a.txt">>, <<"/", "b.txt">>, <<"/", "sub">>,
           <<"/", "sub", "/", "x">>, <<"/", "ghost.txt">> }

\* r.URL.Query()[k] is the list of the values given for k; the key is in
\* the map exactly when the list is not empty
NoValues   == <<>>
JsonValues == { NoValues, << <<>> >>, << <<"1">> >> }
HashValues == { NoValues, <<md5>>, <<<<"M", "D", "5">>>>,
                <<<<"S", "h", "a", "2", "5", "6">>, md5>>,
                <<<<"S", "H", "A", "1">>>>,
                <<<<"c", "r", "c">>>>, << <<>> >> }
ListHashValues == { NoValues, <<md5>>,
                    <<<<"S", "h", "a", "2", "5", "6">>, md5>>,
                    <<<<"c", "r", "c">>>> }

Request(m, p, j, h) ==
    [method |-> m, path |-> p, query |-> [json |-> j, hash |-> h]]

AllRequests ==
    { Request(m, p, j, h) :
      m \in Methods, p \in Paths, j \in JsonValues, h \in HashValues }

\* the requests of the runs in which handlers interleave
Requests ==
    { Request("GET", <<"/">>, << <<>> >>, h) : h \in ListHashValues }
    \cup { Request("DELETE", p, NoValues, NoValues) : p \in Paths }
    \cup { Request("GET", <<"/", "a.txt">>, NoValues, NoValues),
           Request("GET", <<"/">>, NoValues, <<md5>>),
           Request("POST", <<"/">>, << <<"1">> >>, NoValues),
           Request("DELETE", <<"/", "a.txt">>, << <<>> >>, <<md5>>) }

NoReq  == Request("", <<>>, NoValues, NoValues)
NoInfo == [Name |-> "", Size |-> 0, ModTime |-> 0]
NoResp == [status |-> 0, ctype |-> "", text |-> <<>>, json |-> <<>>]

\* the handler returned without writing: net/http answers 200, no body
EmptyOk == [status |-> 200, ctype |-> "", text |-> <<>>, json |-> <<>>]

\* http.Error(w, msg, code)
HttpError(msg, code) ==
    [status |-> code, ctype |-> "text/plain", text |-> msg, json |-> <<>>]

\* one FileInfo through encoding/json: hashSum has omitempty
Marshal(f) ==
    IF f.HashSum = <<>>
    THEN [name |-> f.Name, size |-> f.Size, lastModified |-> f.LastModified]
    ELSE [name |-> f.Name, size |-> f.Size, lastModified |-> f.LastModified,
          hashSum |-> f.HashSum]

\* json.NewEncoder(w).Encode(files) after the Content-Type header
JsonResponse(fl) ==
    [status |-> 200, ctype |-> "application/json", text |-> <<>>,
     json |-> [i \in 1..Len(fl) |-> Marshal(fl[i])]]

---------------------------------------------------------------------------
(* Request Router *)

HasParam(r, k) == Len(r.query[k]) > 0

\* variant: the query is looked at before the method
muxQueryFirst(r) ==
    IF HasParam(r, "json")
    THEN IF HasParam(r, "hash")
         THEN [handler |-> "lister", algo |-> r.query.hash[1]]
         ELSE [handler |-> "lister", algo |-> <<>>]
    ELSE IF r.method = "DELETE"
    THEN [handler |-> "eraser", algo |-> <<>>]
    ELSE [handler |-> "static", algo |-> <<>>]

mux(r) ==
    IF r.method = "DELETE"
    THEN [handler |-> "eraser", algo |-> <<>>]
    ELSE IF HasParam(r, "json")
    THEN IF HasParam(r, "hash")
         THEN [handler |-> "lister", algo |-> r.query.hash[1]]
         ELSE [handler |-> "lister", algo |-> <<>>]
    ELSE [handler |-> "static", algo |-> <<>>]

FirstPc(h) ==
    CASE h = "eraser" -> "del_stat"
      [] h = "lister" -> "list_readdir"
      [] OTHER        -> "static"

Idle(p) == pc[p] \in {"idle", "done"}

\* the server accepts request r and hands it to goroutine p
Start(p, r) ==
    /\ Idle(p)
    /\ served'  = served + 1
    /\ req'     = [req EXCEPT ![p] = r]
    /\ handler' = [handler EXCEPT ![p] = mux(r).handler]
    /\ algo'    = [algo EXCEPT ![p] = mux(r).algo]
    /\ pc'      = [pc EXCEPT ![p] = FirstPc(mux(r).handler)]
    /\ entries' = [entries EXCEPT ![p] = <<>>]
    /\ idx'     = [idx EXCEPT ![p] = 0]
    /\ info'    = [info EXCEPT ![p] = NoInfo]
    /\ files'   = [files EXCEPT ![p] = <<>>]
    /\ resp'    = [resp EXCEPT ![p] = NoResp]
    /\ UNCHANGED <<dirExists, fs, erased>>

\* the handler of p returns having written response r
Finish(p, r) ==
    /\ resp' = [resp EXCEPT ![p] = r]
    /\ pc'   = [pc EXCEPT ![p] = "done"]

---------------------------------------------------------------------------
(* Static Passthrough *)

StaticServe(p) ==
    /\ pc[p] = "static"
    /\ Finish(p, [status |-> IF PathExists(PathBelowDir(TrimPrefix(req[p].path)))
                             THEN 200 ELSE StatusNotFound,
                  ctype |-> "static", text |-> <<>>, json |-> <<>>])
    /\ UNCHANGED <<dirExists, fs, req, handler, algo, entries, idx, info,
                   files, served,
                   erased>>

---------------------------------------------------------------------------
(* Hash Selector *)

\* variant: the name is compared as given, without strings.ToLower
NewHashCaseSensitive(a) ==
    CASE a = md5    -> "md5"
      [] a = sha1   -> "sha1"
      [] a = sha256 -> "sha256"
      [] OTHER      -> "nil"

\* the digest accumulator chosen for algo, "nil" when there is none
NewHash(a) ==
    LET l == ToLower(a) IN
    CASE l = md5    -> "md5"
      [] l = sha1   -> "sha1"
      [] l = sha256 -> "sha256"
      [] OTHER      -> "nil"

\* fmt.Sprintf("%x", h.Sum(nil)) after the content went through h: a
\* digest is a non-empty string that h and the content determine
HexDigest(h, content) == <<h, content>>

\* os.Open(file) returned err == nil
OpenOk(n) == dirExists /\ n \in DOMAIN fs /\ fs[n].readable

\* getHash(dir+"/"+n, a) from os.Open on; the open handle keeps the
\* content readable whatever happens to the name afterwards
getHash(n, a) ==
    IF ~OpenOk(n)
    THEN [err |-> TRUE, sum |-> <<>>, msg |-> <<"failed to open file: ", n>>]
    ELSE IF NewHash(a) = "nil"
    THEN [err |-> FALSE, sum |-> <<>>, msg |-> <<>>]
    ELSE IF fs[n].kind = "dir"
    THEN [err |-> TRUE, sum |-> <<>>, msg |-> <<"failed to copy: ", n>>]
    ELSE [err |-> FALSE, sum |-> HexDigest(NewHash(a), fs[n].content),
          msg |-> <<>>]

---------------------------------------------------------------------------
(* Directory Lister *)

\* variant: the comparison the other way round
lessAscending(x, y) == x.LastModified < y.LastModified

less(x, y) == x.LastModified > y.LastModified

Swap(s, i, j) == [s EXCEPT ![i] = s[j], ![j] = s[i]]

\* sort.Slice on a short slice is an insertion sort:
\*   for j := i; j > a && less(data[j], data[j-1]); j-- { swap(j, j-1) }
RECURSIVE InsertLeft(_, _)
InsertLeft(s, j) ==
    IF j > 1 /\ less(s[j], s[j - 1])
    THEN InsertLeft(Swap(s, j, j - 1), j - 1)
    ELSE s

RECURSIVE SortFrom(_, _)
SortFrom(s, i) ==
    IF i > Len(s) THEN s ELSE SortFrom(InsertLeft(s, i), i + 1)

SortSlice(s) == SortFrom(s, 2)

\* the end of listFilesAsJson: sort, then encode
ListRespond(p, fl) == Finish(p, JsonResponse(SortSlice(fl)))

\* os.ReadDir(dir)
ListReadDir(p) ==
    /\ pc[p] = "list_readdir"
    /\ IF ~dirExists
       THEN /\ Finish(p, HttpError(<<"open dir: no such file or directory">>,
                                   StatusInternalServerError))
            /\ UNCHANGED <<entries, idx>>
       ELSE LET es == SelectSeq(NameOrder, LAMBDA n : n \in DOMAIN fs) IN
            /\ entries' = [entries EXCEPT ![p] = es]
            /\ idx' = [idx EXCEPT ![p] = 1]
            /\ IF Len(es) = 0
               THEN ListRespond(p, <<>>)
               ELSE /\ pc' = [pc EXCEPT ![p] = "list_info"]
                    /\ UNCHANGED resp
    /\ UNCHANGED <<dirExists, fs, req, handler, algo, info, files, served,
                   erased>>

\* variant: an entry whose Info() fails is left out (continue)
InfoFailedSkip(p) ==
    IF idx[p] = Len(entries[p])
    THEN ListRespond(p, files[p]) /\ UNCHANGED <<idx, info, files>>
    ELSE /\ idx' = [idx EXCEPT ![p] = idx[p] + 1]
         /\ UNCHANGED <<pc, info, files, resp>>

\* entry.Info() failed: the listing is given up
InfoFailed(p) ==
    /\ Finish(p, HttpError(<<"lstat: no such file or directory",
                             entries[p][idx[p]]>>,
                           StatusInternalServerError))
    /\ UNCHANGED <<idx, info, files>>

\* entry.Info(): an lstat of the entry at the time of the call
ListInfo(p) ==
    /\ pc[p] = "list_info"
    /\ LET n == entries[p][idx[p]] IN
       IF dirExists /\ n \in DOMAIN fs
       THEN /\ info' = [info EXCEPT ![p] = [Name |-> n, Size |-> fs[n].size,
                                            ModTime |-> fs[n].mtime]]
            /\ pc' = [pc EXCEPT ![p] = "list_hash"]
            /\ UNCHANGED <<idx, files, resp>>
       ELSE InfoFailed(p)
    /\ UNCHANGED <<dirExists, fs, req, handler, algo, entries, served,
                   erased>>

\* getHash, append, and either the next iteration or the end of the loop
ListGetHash(p) ==
    /\ pc[p] = "list_hash"
    /\ LET h  == getHash(entries[p][idx[p]], algo[p])
           fl == Append(files[p],
                        [Name |-> info[p].Name, Size |-> info[p].Size,
                         LastModified |-> info[p].ModTime, HashSum |-> h.sum])
       IN
       IF h.err
       THEN /\ Finish(p, HttpError(h.msg, StatusInternalServerError))
            /\ UNCHANGED <<idx, files>>
       ELSE /\ files' = [files EXCEPT ![p] = fl]
            /\ IF idx[p] = Len(entries[p])
               THEN ListRespond(p, fl) /\ UNCHANGED idx
               ELSE /\ idx' = [idx EXCEPT ![p] = idx[p] + 1]
                    /\ pc' = [pc EXCEPT ![p] = "list_info"]
                    /\ UNCHANGED resp
    /\ UNCHANGED <<dirExists, fs, req, handler, algo, entries, info, served,
                   erased>>

---------------------------------------------------------------------------
(* File Eraser *)

FileNameOf(r) == TrimPrefix(r.path)

NotFound(fileName) ==
    HttpError(<<"Unknown file ", fileName>>, StatusNotFound)

\* os.Stat(filePath)
DelStat(p) ==
    /\ pc[p] = "del_stat"
    /\ IF StatOk(PathBelowDir(FileNameOf(req[p])))
       THEN pc' = [pc EXCEPT ![p] = "del_remove"] /\ UNCHANGED resp
       ELSE Finish(p, NotFound(FileNameOf(req[p])))
    /\ UNCHANGED <<dirExists, fs, req, handler, algo, entries, idx, info,
                   files, served,
                   erased>>

\* os.Remove(filePath)
DelRemove(p) ==
    /\ pc[p] = "del_remove"
    /\ LET segs == PathBelowDir(FileNameOf(req[p])) IN
       IF RemoveOk(segs)
       THEN /\ fs' = FsAfterRemove(segs)
            /\ dirExists' = DirAfterRemove(segs)
            /\ erased' = erased \cup {segs}
            /\ Finish(p, EmptyOk)
       ELSE /\ Finish(p, HttpError(<<"Failed to delete file ",
                                     FileNameOf(req[p])>>,
                                   StatusInternalServerError))
            /\ UNCHANGED <<dirExists, fs, erased>>
    /\ UNCHANGED <<req, handler, algo, entries, idx, info, files, served>>

---------------------------------------------------------------------------
(* Specifications *)

\* after main: downloadsDir has created the directory, whatever the
\* browser left in it is there, no request has arrived
Init ==
    /\ dirExists = TRUE
    /\ fs \in Directories
    /\ pc = [p \in Procs |-> "idle"]
    /\ req = [p \in Procs |-> NoReq]
    /\ handler = [p \in Procs |-> "none"]
    /\ algo = [p \in Procs |-> <<>>]
    /\ entries = [p \in Procs |-> <<>>]
    /\ idx = [p \in Procs |-> 0]
    /\ info = [p \in Procs |-> NoInfo]
    /\ files = [p \in Procs |-> <<>>]
    /\ resp = [p \in Procs |-> NoResp]
    /\ served = 0
    /\ erased = {}

Step(p) ==
    \/ StaticServe(p)
    \/ ListReadDir(p)
    \/ ListInfo(p)
    \/ ListGetHash(p)
    \/ DelStat(p)
    \/ DelRemove(p)

\* requests are served concurrently, one goroutine each; which goroutine
\* serves a request is of no consequence, the first free one takes it
StartConc(p, r) ==
    /\ served < MaxReqs
    /\ p = "g1" \/ ~Idle("g1")
    /\ Start(p, r)

Next ==
    \/ \E p \in Procs, r \in Requests : StartConc(p, r)
    \/ \E p \in Procs : Step(p)

Spec == Init /\ [][Next]_vars

\* a sequential run: a request arrives only when the one before it has
\* been answered
StartSeq(r) == served < MaxSeqReqs /\ Start("g1", r)

NextSeq ==
    \/ \E r \in Requests : StartSeq(r)
    \/ Step("g1")

SpecSeq == Init /\ [][NextSeq]_vars

\* the router alone, on every request
StartMux(r) == served = 0 /\ Start("g1", r)

NextMux == \E r \in AllRequests : StartMux(r)

SpecMux == Init /\ [][NextMux]_vars

---------------------------------------------------------------------------
(* Vocabulary of the properties *)

Supported == {md5, sha1, sha256}

Done(p)      == pc[p] = "done"
ListDone(p)  == Done(p) /\ handler[p] = "lister"
Listed(p)    == ListDone(p) /\ resp[p].status = 200
EraseDone(p) == Done(p) /\ handler[p] = "eraser"

Range(s)       == { s[i] : i \in 1..Len(s) }
RecordNames(p) == { resp[p].json[i].name : i \in 1..Len(resp[p].json) }

\* the response holds exactly one record for each name of S, and no other
OneRecordEach(p, S) ==
    /\ Len(resp[p].json) = Cardinality(S)
    /\ RecordNames(p) = S

\* the request names a regular file directly inside the directory
TargetsFile(r) == Len(r.path) = 2 /\ r.path[1] = "/" /\ r.path[2] \in FileNames

\* the entry a file name of a request stands for is there
NamedEntryExists(fileName) ==
    /\ dirExists
    /\ CASE Len(fileName) = 1 -> fileName[1] \in DOMAIN fs
         [] Len(fileName) = 3 -> /\ fileName[1] \in DOMAIN fs
                                 /\ fileName[3] \in fs[fileName[1]].children
         [] OTHER -> FALSE

---------------------------------------------------------------------------
(* C1 *)

\* C1: every request is dispatched by method first and query second: a
\* DELETE goes to the File Eraser whatever its query; otherwise a request
\* with a json parameter goes to the Directory Lister, with the first
\* value of hash as algorithm when hash is present and the empty string
\* when it is not; every other request goes to the static passthrough.
\* The request is in the hands of that one component and of no other.
C1_Dispatch ==
    \A p \in Procs :
      req[p] # NoReq =>
        LET r == req[p] IN
        /\ IF r.method = "DELETE"
           THEN handler[p] = "eraser" /\ pc[p] \in {"del_stat", "del_remove", "done"}
           ELSE IF r.query.json # <<>>
           THEN /\ handler[p] = "lister"
                /\ pc[p] \in {"list_readdir", "list_info", "list_hash", "done"}
                /\ algo[p] = IF r.query.hash # <<>>
                             THEN Head(r.query.hash) ELSE <<>>
           ELSE handler[p] = "static" /\ pc[p] \in {"static", "done"}

\* a DELETE carrying both json and hash has reached the File Eraser
C1_Witness ==
    \E p \in Procs :
      /\ req[p].method = "DELETE"
      /\ req[p].query.json # <<>>
      /\ req[p].query.hash # <<>>
      /\ handler[p] = "eraser"

---------------------------------------------------------------------------
(* C2 *)

\* C2: every successful listing is sorted by lastModified descending:
\* each record's lastModified is at least that of the record after it.
C2_SortedDescending ==
    \A p \in Procs :
      Listed(p) =>
        \A i \in 1..(Len(resp[p].json) - 1) :
          resp[p].json[i].lastModified >= resp[p].json[i + 1].lastModified

\* a listing of three entries, enumerated oldest first, two of them with
\* the same timestamp, has been returned newest first
C2_Witness ==
    \E p \in Procs :
      /\ Listed(p)
      /\ Len(resp[p].json) = 3
      /\ files[p][1].LastModified < files[p][3].LastModified
      /\ resp[p].json[1].lastModified = resp[p].json[2].lastModified
      /\ resp[p].json[2].lastModified > resp[p].json[3].lastModified

---------------------------------------------------------------------------
(* C3 *)

ErasedNames == { segs[1] : segs \in { e \in erased : Len(e) = 1 } }

\* a step that ends a DELETE of a regular file that is there answers 200
\* with no body and removes that entry and nothing else
C3_RemovesExactlyThat(p) ==
    ( /\ pc[p] \in {"del_stat", "del_remove"}
      /\ pc'[p] = "done"
      /\ TargetsFile(req[p])
      /\ NamedEntryExists(FileNameOf(req[p])) )
    => /\ resp'[p] = EmptyOk
       /\ DOMAIN fs' = DOMAIN fs \ {req[p].path[2]}
       /\ \A n \in DOMAIN fs' : fs'[n] = fs[n]
       /\ dirExists' = dirExists

\* a DELETE of a file an earlier DELETE has removed is answered 404
C3_SecondIsNotFound(p) ==
    ( /\ pc[p] = "del_stat"
      /\ pc'[p] # "del_stat"
      /\ TargetsFile(req[p])
      /\ req[p].path[2] \in ErasedNames )
    => pc'[p] = "done" /\ resp'[p].status = StatusNotFound

\* a listing returned after the DELETEs holds a record for every entry
\* that is left and none for a removed one
C3_ListingAfter(p) ==
    Listed(p) => /\ OneRecordEach(p, DOMAIN fs)
                 /\ RecordNames(p) \cap ErasedNames = {}

\* C3: in a sequential run a DELETE of a file that exists returns the
\* default success status with an empty body and removes exactly that
\* file; every later listing has a record for every other entry and none
\* for the removed file; a second DELETE of it returns 404.
C3_DeleteThenGone ==
    /\ [][\A p \in Procs : C3_RemovesExactlyThat(p) /\ C3_SecondIsNotFound(p)]_vars
    /\ [](\A p \in Procs : C3_ListingAfter(p))

\* a file was removed by a DELETE, other entries are left, and a second
\* DELETE of the same file has been answered 404
C3_Witness ==
    \E p \in Procs :
      /\ EraseDone(p)
      /\ TargetsFile(req[p])
      /\ req[p].path[2] \in ErasedNames
      /\ resp[p].status = StatusNotFound
      /\ DOMAIN fs # {}

---------------------------------------------------------------------------
(* C4 *)

\* C4: a DELETE of a name that is not in the directory is answered at the
\* existence check: status 404, a plain-text body "Unknown file <name>",
\* no removal attempted, the directory left as it was.
C4_UnknownFile ==
    [][\A p \in Procs :
         ( /\ pc[p] = "del_stat"
           /\ pc'[p] # "del_stat"
           /\ Len(FileNameOf(req[p])) > 0
           /\ ~NamedEntryExists(FileNameOf(req[p])) )
         => /\ pc'[p] = "done"
            /\ resp'[p] = [status |-> 404, ctype |-> "text/plain",
                           text |-> <<"Unknown file ", FileNameOf(req[p])>>,
                           json |-> <<>>]
            /\ fs' = fs
            /\ dirExists' = dirExists]_vars

\* DELETE /ghost.txt has been answered 404 while the directory holds files
C4_Witness ==
    \E p \in Procs :
      /\ EraseDone(p)
      /\ req[p].path = <<"/", "ghost.txt">>
      /\ resp[p].status = 404
      /\ resp[p].text = <<"Unknown file ", <<"ghost.txt">>>>
      /\ DOMAIN fs # {}

---------------------------------------------------------------------------
(* C5 *)

\* the digest function a supported (lower-case) name stands for
DigestNamed(l) ==
    CASE l = md5  -> "md5"
      [] l = sha1 -> "sha1"
      [] OTHER    -> "sha256"

\* C5: in a successful listing a record has a hashSum field exactly when
\* the algorithm name, case-folded, is one of md5, sha1, sha256; then the
\* field of every record is non-empty and is the digest of the content of
\* the file the record names.  With any other name, the empty one
\* included, no record has the field.
C5_HashSumIffSupported ==
    \A p \in Procs :
      LET l == ToLower(algo[p]) IN
      /\ Listed(p) =>
           \A i \in 1..Len(resp[p].json) :
             LET o == resp[p].json[i] IN
             /\ ("hashSum" \in DOMAIN o) <=> (l \in Supported)
             /\ l \in Supported =>
                  /\ o.hashSum # <<>>
                  /\ o.hashSum = HexDigest(DigestNamed(l), FileContent(o.name))
      \* a name that is not supported is no error: a listing that fails
      \* has failed on the directory or on an entry
      /\ (ListDone(p) /\ ~Listed(p) /\ l \notin Supported) =>
           resp[p].text[1] \in {"open dir: no such file or directory",
                                "lstat: no such file or directory",
                                "failed to open file: "}

\* a listing asked for with hash=Sha256 has returned two records, the one
\* of an empty file among them, each with its digest
C5_Witness ==
    \E p \in Procs :
      /\ Listed(p)
      /\ algo[p] = <<"S", "h", "a", "2", "5", "6">>
      /\ Len(resp[p].json) = 2
      /\ \A i \in 1..2 : "hashSum" \in DOMAIN resp[p].json[i]

---------------------------------------------------------------------------
(* C6 *)

\* C6: a list request, with or without a supported algorithm, returns
\* exactly one record for every immediate entry of the directory and for
\* nothing else, whatever kind the entries are of (here: in a sequential
\* run, the directory and every entry in it being readable).
C6_OneRecordPerEntry ==
    \A p \in Procs :
      ( /\ ListDone(p)
        /\ dirExists
        /\ \A n \in DOMAIN fs : fs[n].readable )
      => /\ resp[p].status = 200
         /\ OneRecordEach(p, DOMAIN fs)

---------------------------------------------------------------------------
(* C7 *)

\* C7: a list request is all or nothing, whatever DELETEs run beside it
\* and whatever read fails: the answer is either status 500 with a
\* plain-text error and no record, or a JSON array with one record for
\* every entry that was enumerated.
C7_AllOrNothing ==
    \A p \in Procs :
      ListDone(p) =>
        \/ /\ resp[p].status = 500
           /\ resp[p].ctype = "text/plain"
           /\ Len(resp[p].text) > 0
           /\ Len(resp[p].json) = 0
        \/ /\ resp[p].status = 200
           /\ resp[p].ctype = "application/json"
           /\ OneRecordEach(p, Range(entries[p]))

\* a listing failed with 500 after it had built a record, because a
\* concurrent DELETE removed an entry it had enumerated
C7_Witness ==
    \E p \in Procs :
      /\ ListDone(p)
      /\ resp[p].status = 500
      /\ Len(files[p]) > 0
      /\ \E n \in Range(entries[p]) : <<n>> \in erased

---------------------------------------------------------------------------
(* C8 *)

\* C8: of two DELETE requests for the same existing file that run
\* concurrently, one returns success and the other 404; neither returns
\* 500.
C8_ConcurrentDeletes ==
    \A p, q \in Procs :
      ( /\ p # q
        /\ EraseDone(p) /\ EraseDone(q)
        /\ req[p].path = req[q].path
        /\ TargetsFile(req[p])
        /\ req[p].path[2] \in ErasedNames )
      => {resp[p].status, resp[q].status} = {200, 404}

---------------------------------------------------------------------------
(* C9 *)

\* C9: a list request whose algorithm name is empty or unsupported opens
\* no file, so it succeeds with one record per entry whenever the
\* enumeration and the metadata reads succeed, also when an entry cannot
\* be opened for reading.
C9_NoHashNoOpen ==
    \A p \in Procs :
      ( /\ ListDone(p)
        /\ ToLower(algo[p]) \notin Supported
        /\ dirExists
        /\ Range(entries[p]) = DOMAIN fs )
      => /\ resp[p].status = 200
         /\ OneRecordEach(p, Range(entries[p]))

---------------------------------------------------------------------------
(* C10 *)

\* C10: no sequence of requests removes the configured directory: it
\* exists after every request, and no listing fails for want of it.
C10_DirectoryStays ==
    /\ dirExists
    /\ \A p \in Procs :
         ListDone(p) =>
           resp[p].text # <<"open dir: no such file or directory">>

=============================================================================
